---- MODULE Spec2Model ----
(***************************************************************************)
(* TMC File Transfer: the file lifecycle (simple and chunked upload, the   *)
(* download/validate gate) over the D1 table uploads_v2 and the R2 bucket. *)
(* Every request handler is a process whose steps are the handler's awaits *)
(* on D1 or R2; requests of different workers interleave at those steps.   *)
(* Identifiers are fresh UUIDs in the code; here the n-th upload draws n   *)
(* and uses it as file_id, as storage key (file_name), as salt and as the  *)
(* multipart uploadId, which are in bijection in the code.                 *)
(***************************************************************************)
EXTENDS Integers, Sequences, FiniteSets, TLC

\* ---------------------------------------------------------------- bounds
MaxFiles == 3
MaxUploads == 1
MaxSweeps == 1
\* index-improved.js fixes its batch size (const batchSize = 50); scaled down
\* so that more than 2 x batchSize rows fit in MaxFiles.
IMPROVED_BATCH_SIZE == 1
NumProcs == 2
MaxDays == 2
MaxParts == 3
MaxEtag == 2
MaxDeliveries == 2
MaxMaint == 3
NumRequests == 3
\* RATE_LIMITS.upload.requests is 10 in _middleware.ts; scaled down so that more
\* requests than the limit fit in NumRequests.
UPLOAD_REQUESTS == 2

\* ------------------------------------------------------- program constants
DaySeconds == 86400
CHUNK_SIZE == 52428800
MAX_FILE_SIZE == 157286400
SIMPLE_DEFAULT_MAX_DOWNLOADS == 999999
CHUNKED_DEFAULT_MAX_DOWNLOADS == 10
MAX_DOWNLOADS_LIMIT == 1000
MIN_PASSWORD_LENGTH == 8
DEFAULT_CHUNK_SIZE == 5242880
maxRetries == 3
UPLOAD_WINDOW == 3600

FileIds == 1..MaxFiles
UploadIds == 1..MaxUploads
Procs == 1..NumProcs
Times == {d * DaySeconds : d \in 0..MaxDays}
Workers == {"scheduled", "manual"}
Requests == 1..NumRequests
\* config.vacuumInterval, read from env.VACUUM_INTERVAL: set to one day here.
vacuumInterval == DaySeconds
PartNumbers == 1..MaxParts

\* ----------------------------------------------------------------- inputs
Passwords == {"", "abc12345", "wrong"}
Lifetimes == {"1", "7"}
MaxDownloadsOpts == {-1, 0, 1, 2}
SimpleSizes == {10}
ChunkedSizes == {CHUNK_SIZE + 1, 2 * CHUNK_SIZE + 1, MAX_FILE_SIZE + 1}
\* Files the browser sends through the chunked path, and the chunkSize option:
\* left out (the default) or set to the server's CHUNK_SIZE.
ClientFileSizes == {CHUNK_SIZE + 1, 2 * CHUNK_SIZE, 2 * CHUNK_SIZE + 1, MAX_FILE_SIZE}
ClientChunkSizes == {DEFAULT_CHUNK_SIZE, CHUNK_SIZE}

PwLen(pw) == CASE pw = "" -> 0 [] pw = "wrong" -> 5 [] OTHER -> 8

\* The options of POST upload (FileUploadRequest).
SimpleOptions ==
  [lifetime : Lifetimes, passwordEnabled : BOOLEAN, password : {"", "abc12345"},
   onetimeDownload : BOOLEAN, maxDownloads : MaxDownloadsOpts, size : SimpleSizes]

\* The options of POST upload-multipart?action=initiate (MultipartUploadRequest).
ChunkedOptions ==
  [lifetime : Lifetimes, password : Passwords, maxDownloads : MaxDownloadsOpts,
   size : ChunkedSizes]

\* Files of two sizes that expire after a day.
FreedSizes == {10, 20}
FreedOptions ==
  [lifetime : {"1"}, passwordEnabled : {FALSE}, password : {""},
   onetimeDownload : {FALSE}, maxDownloads : {0}, size : FreedSizes]

\* The upload options of the sweep's specification: files that expire after a day.
SweepOptions ==
  [lifetime : {"1"}, passwordEnabled : {FALSE}, password : {""},
   onetimeDownload : {FALSE}, maxDownloads : {0}, size : SimpleSizes]

\* The initiate options of a chunked upload that lives one day.
SlowOptions ==
  [lifetime : {"1"}, password : {""}, maxDownloads : {0}, size : {CHUNK_SIZE + 1}]

\* The initiate options of the specification of downloads during an upload.
CrossOptions ==
  [lifetime : {"7"}, password : {""}, maxDownloads : {0}, size : {CHUNK_SIZE + 1}]

\* The initiate options of the chunked-session specification: the gate's
\* password and expiry cases are those of the simple upload's specification.
SessionOptions ==
  [lifetime : {"7"}, password : {""}, maxDownloads : {-1, 0}, size : ChunkedSizes]

\* The parts lists a complete request may carry.
PartRefs == [partNumber : PartNumbers, etag : 1..MaxEtag]
PartLists == UNION {[1..n -> PartRefs] : n \in 0..MaxParts}

\* ------------------------------------------------------------------ state
VARIABLES
  db,         \* uploads_v2: file_id -> row, or NoRow
  bucket,     \* R2: the keys that hold a readable object
  mpu,        \* R2: the multipart session of each uploadId
  now,        \* Date.now() / 1000
  nextId,     \* the next fresh identifier
  pc,         \* per request process: the await it stands at
  req,        \* per request process: the locals of its handler
  out,        \* the response returned by the last step, if that step returned one
  delivered,  \* per file: how many responses carried the object body
  sweep,      \* the cleanup worker: its position, locals, stats and result
  client,     \* MultipartUploader.upload in the browser: its position and locals
  maint,      \* metadata key last_vacuum, the VACUUM runs, and each sweep's maintenance step
  rl          \* rate_limits rows of one client key, and each request's middleware step

vars == <<db, bucket, mpu, now, nextId, pc, req, out, delivered, sweep, client, maint, rl>>

NoRow == [upload_status |-> "none"]
NoHash == [alg |-> "none", pw |-> "", salt |-> 0]
NoReq == [id |-> 0, row |-> NoRow, parts |-> <<>>, pn |-> 0]
NoOut == [op |-> "none", id |-> 0, code |-> "none"]
NoSession == [state |-> "none", parts |-> [n \in PartNumbers |-> 0]]

NoSweep ==
  [pc |-> "idle", variant |-> "none", batchSize |-> 0, maxExecutionTime |-> 0,
   results |-> <<>>, i |-> 0, k |-> 0, toDelete |-> <<>>,
   sizes |-> [id \in FileIds |-> 0], storageSpaceFreed |-> 0,
   filesProcessed |-> 0, filesDeleted |-> 0, errors |-> 0, errorsLength |-> 0,
   success |-> FALSE, fatal |-> FALSE, ranRateLimit |-> FALSE, runs |-> 0,
   attempted |-> {}, failed |-> {}, leftover |-> {}]

NoClient ==
  [pc |-> "idle", fileSize |-> 0, chunkSize |-> 0, totalChunks |-> 0,
   chunkIndex |-> 0, retryCount |-> 0, waited |-> <<>>, slices |-> <<>>,
   success |-> FALSE, aborted |-> FALSE]

\* lastVacuum -1: the metadata table has no last_vacuum row.
NoMaint ==
  [lastVacuum |-> -1, vacuums |-> <<>>, runs |-> 0,
   pc |-> [w \in Workers |-> "idle"], currentTime |-> [w \in Workers |-> 0]]

NoRl ==
  [rows |-> [t \in Times |-> 0],
   pc |-> [r \in Requests |-> "start"],
   currentTime |-> [r \in Requests |-> 0],
   passedAt |-> [r \in Requests |-> 0]]

Out(op, id, code) == [op |-> op, id |-> id, code |-> code]
HasRow(id) == id \in FileIds /\ db[id] # NoRow

\* ----------------------------------------------------------- pure helpers
\* SHA-256 of password + salt, as the gate and SecurityUtils compute it.
Sha256Hash(password, salt) == [alg |-> "sha256", pw |-> password, salt |-> salt]

\* PBKDF2 with the 'pbkdf2$' prefix, as the simple upload computes it.
Pbkdf2Hash(password, salt) == [alg |-> "pbkdf2", pw |-> password, salt |-> salt]

getLifetimeSeconds(lifetime) ==
  CASE lifetime = "1" -> 86400
    [] lifetime = "7" -> 604800
    [] lifetime = "30" -> 2592000
    [] OTHER -> 604800

parseInt(s) == CASE s = "1" -> 1 [] s = "7" -> 7 [] s = "30" -> 30 [] OTHER -> 7

validateOptions(o) ==
  /\ o.lifetime \in {"1", "7", "30"}
  /\ o.passwordEnabled =>
       (o.password # "" /\ PwLen(o.password) >= MIN_PASSWORD_LENGTH)
  /\ ~(o.maxDownloads # 0 /\ (o.maxDownloads < 1 \/ o.maxDownloads > MAX_DOWNLOADS_LIMIT))

validateFile(size) == size <= MAX_FILE_SIZE

\* The row the simple upload inserts, with expires_at computed after the put.
SimpleRow(o, id, completionTime) ==
  [file_size |-> o.size,
   expires_at |-> completionTime + getLifetimeSeconds(o.lifetime),
   download_count |-> 0,
   max_downloads |-> IF o.maxDownloads # 0 THEN o.maxDownloads
                     ELSE IF o.onetimeDownload THEN 1 ELSE SIMPLE_DEFAULT_MAX_DOWNLOADS,
   has_password |-> o.passwordEnabled,
   password_hash |-> IF o.passwordEnabled /\ o.password # ""
                     THEN Pbkdf2Hash(o.password, id) ELSE NoHash,
   salt |-> id,
   is_one_time |-> o.onetimeDownload,
   multipart_upload_id |-> 0,
   upload_status |-> "completed"]

\* The gate's checks on a row read from uploads_v2 (download and validate share them).
GateDecision(row, t, password) ==
  IF row = NoRow THEN "FILE_NOT_FOUND"
  ELSE IF row.expires_at < t THEN "FILE_EXPIRED"
  ELSE IF row.is_one_time /\ row.download_count > 0 THEN "FILE_CONSUMED"
  ELSE IF row.download_count >= row.max_downloads THEN "DOWNLOAD_LIMIT_REACHED"
  ELSE IF row.has_password /\ password = "" THEN "PASSWORD_REQUIRED"
  ELSE IF row.has_password /\ Sha256Hash(password, row.salt) # row.password_hash
       THEN "INVALID_PASSWORD"
  ELSE "GRANTED"

\* ------------------------------------------------------------------- Init
Init ==
  /\ db = [id \in FileIds |-> NoRow]
  /\ bucket = {}
  /\ mpu = [id \in FileIds |-> NoSession]
  /\ now = 0
  /\ nextId = 1
  /\ pc = [p \in Procs |-> "idle"]
  /\ req = [p \in Procs |-> NoReq]
  /\ out = NoOut
  /\ delivered = [id \in FileIds |-> 0]
  /\ sweep = NoSweep
  /\ client = NoClient
  /\ maint = NoMaint
  /\ rl = NoRl

Return(p, o) ==
  /\ pc' = [pc EXCEPT ![p] = "idle"]
  /\ req' = [req EXCEPT ![p] = NoReq]
  /\ out' = o
  /\ UNCHANGED <<sweep, client, maint, rl>>

Goto(p, label, r) ==
  /\ pc' = [pc EXCEPT ![p] = label]
  /\ req' = [req EXCEPT ![p] = r]
  /\ out' = NoOut
  /\ UNCHANGED <<sweep, client, maint, rl>>

\* ------------------------------------------------------------------ clock
Tick ==
  /\ now + DaySeconds <= MaxDays * DaySeconds
  /\ now' = now + DaySeconds
  /\ out' = NoOut
  /\ UNCHANGED <<db, bucket, mpu, nextId, pc, req, delivered, sweep, client, maint, rl>>

\* -------------------------------------------------- POST validate/{fileId}
Validate(id, password) ==
  /\ out' = Out("validate", id, GateDecision(db[id], now, password))
  /\ UNCHANGED <<db, bucket, mpu, now, nextId, pc, req, delivered, sweep, client, maint, rl>>

\* -------------------------------------------------- POST download/{fileId}
\* SELECT the row and run the gate's checks on it.
DlSelect(p, id, password) ==
  /\ pc[p] = "idle"
  /\ delivered[id] < MaxDeliveries
  /\ LET d == GateDecision(db[id], now, password) IN
       IF d = "GRANTED"
       THEN Goto(p, "dl_get", [NoReq EXCEPT !.id = id])
       ELSE Return(p, Out("download", id, d))
  /\ UNCHANGED <<db, bucket, mpu, now, nextId, delivered>>

\* The handler streaming the object as soon as it has it, before the UPDATE.
DlGet_StreamFirst(p) ==
  /\ pc[p] = "dl_get"
  /\ Goto(p, IF req[p].id \in bucket THEN "dl_update" ELSE "dl_cleanup", req[p])
  /\ delivered' = IF req[p].id \in bucket
                  THEN [delivered EXCEPT ![req[p].id] = @ + 1]
                  ELSE delivered
  /\ UNCHANGED <<db, bucket, mpu, now, nextId>>

\* TRANSFER_BUCKET.get(file_name)
DlGet(p) ==
  /\ pc[p] = "dl_get"
  /\ Goto(p, IF req[p].id \in bucket THEN "dl_update" ELSE "dl_cleanup", req[p])
  /\ UNCHANGED <<db, bucket, mpu, now, nextId, delivered>>

\* The object is missing: DELETE the row and answer 404.
DlCleanup(p) ==
  /\ pc[p] = "dl_cleanup"
  /\ db' = [db EXCEPT ![req[p].id] = NoRow]
  /\ Return(p, Out("download", req[p].id, "FILE_NOT_FOUND"))
  /\ UNCHANGED <<bucket, mpu, now, nextId, delivered>>

\* The UPDATE without effect: no row is ever changed.
UpdateChanges_Never(id) == 0

\* Rows changed by UPDATE ... SET download_count = download_count + 1
\* WHERE file_id = ? AND download_count < max_downloads.
UpdateChanges(id) ==
  IF HasRow(id) /\ db[id].download_count < db[id].max_downloads THEN 1 ELSE 0

\* JavaScript: updateResult.meta?.changes && updateResult.meta.changes === 0
\* (a changes of 0 is falsy, so the conjunction is never true).
ZeroRowsDetected(changes) == changes # 0 /\ changes = 0

\* The conditional UPDATE, then the error or the body.
DlUpdate(p) ==
  /\ pc[p] = "dl_update"
  /\ LET id == req[p].id
         changes == UpdateChanges(id) IN
       \/ /\ db' = IF changes = 1
                   THEN [db EXCEPT ![id].download_count = @ + 1]
                   ELSE db
          /\ IF ZeroRowsDetected(changes)
             THEN /\ Return(p, Out("download", id, "DOWNLOAD_FAILED"))
                  /\ UNCHANGED delivered
             ELSE /\ Return(p, Out("download", id, "BODY"))
                  /\ delivered' = [delivered EXCEPT ![id] = @ + 1]
       \* !updateResult.success: the statement did not run
       \/ /\ db' = db
          /\ Return(p, Out("download", id, "DOWNLOAD_FAILED"))
          /\ UNCHANGED delivered
  /\ UNCHANGED <<bucket, mpu, now, nextId>>

\* ------------------------------------------------------------ POST upload
\* Validate, draw the identifiers, put the object, compute expires_at.
UpPut(p, o) ==
  /\ pc[p] = "idle"
  /\ IF ~validateFile(o.size) \/ ~validateOptions(o)
     THEN /\ Return(p, Out("upload", 0, "INVALID"))
          /\ UNCHANGED <<bucket, nextId>>
     ELSE /\ nextId \in FileIds
          /\ nextId' = nextId + 1
          /\ \/ /\ bucket' = bucket \cup {nextId}
                /\ Goto(p, "up_insert",
                        [NoReq EXCEPT !.id = nextId, !.row = SimpleRow(o, nextId, now)])
             \/ /\ UNCHANGED bucket
                /\ Return(p, Out("upload", nextId, "INTERNAL_ERROR"))
  /\ UNCHANGED <<db, mpu, now, delivered>>

\* INSERT INTO uploads_v2: it succeeds, reports failure, or throws.
UpInsert(p) ==
  /\ pc[p] = "up_insert"
  /\ \/ /\ db' = [db EXCEPT ![req[p].id] = req[p].row]
        /\ Return(p, Out("upload", req[p].id, "OK"))
     \/ /\ UNCHANGED db
        /\ Goto(p, "up_cleanup", req[p])
     \/ /\ UNCHANGED db
        /\ Return(p, Out("upload", req[p].id, "INTERNAL_ERROR"))
  /\ UNCHANGED <<bucket, mpu, now, nextId, delivered>>

\* The insert reported failure: delete the object, answer DB_ERROR.
UpCleanup(p) ==
  /\ pc[p] = "up_cleanup"
  /\ bucket' = bucket \ {req[p].id}
  /\ Return(p, Out("upload", req[p].id, "DB_ERROR"))
  /\ UNCHANGED <<db, mpu, now, nextId, delivered>>

\* ------------------------------------ POST upload-multipart?action=initiate
isValidPassword(password) == PwLen(password) >= MIN_PASSWORD_LENGTH

totalChunks(fileSize) == (fileSize + CHUNK_SIZE - 1) \div CHUNK_SIZE

\* The row initiate inserts; expiresAt was computed before the session was created.
\* The INSERT names no is_one_time, so the column takes its default FALSE.
ChunkedRow(o, id, expiresAt) ==
  [file_size |-> o.size,
   expires_at |-> expiresAt,
   download_count |-> 0,
   max_downloads |-> IF o.maxDownloads # 0 THEN o.maxDownloads
                     ELSE CHUNKED_DEFAULT_MAX_DOWNLOADS,
   has_password |-> o.password # "",
   password_hash |-> IF o.password # "" THEN Sha256Hash(o.password, id) ELSE NoHash,
   salt |-> IF o.password # "" THEN id ELSE 0,
   is_one_time |-> FALSE,
   multipart_upload_id |-> id,
   upload_status |-> "uploading"]

\* Validate, compute expiresAt, createMultipartUpload.
InitCreate(p, o) ==
  /\ pc[p] = "idle"
  /\ IF o.size > MAX_FILE_SIZE \/ (o.password # "" /\ ~isValidPassword(o.password))
     THEN /\ Return(p, Out("initiate", 0, "INVALID"))
          /\ UNCHANGED <<mpu, nextId>>
     ELSE /\ nextId \in FileIds
          /\ nextId' = nextId + 1
          /\ \/ /\ mpu' = [mpu EXCEPT ![nextId].state = "open"]
                /\ Goto(p, "init_insert",
                        [NoReq EXCEPT !.id = nextId,
                           !.row = ChunkedRow(o, nextId,
                                     now + parseInt(o.lifetime) * 24 * 60 * 60)])
             \/ /\ UNCHANGED mpu
                /\ Return(p, Out("initiate", nextId, "INTERNAL_ERROR"))
  /\ UNCHANGED <<db, bucket, now, delivered>>

\* INSERT INTO uploads_v2 with upload_status 'uploading': it succeeds or throws.
InitInsert(p) ==
  /\ pc[p] = "init_insert"
  /\ \/ /\ db' = [db EXCEPT ![req[p].id] = req[p].row]
        /\ Return(p, Out("initiate", req[p].id, "OK"))
     \/ /\ UNCHANGED db
        /\ Return(p, Out("initiate", req[p].id, "INTERNAL_ERROR"))
  /\ UNCHANGED <<bucket, mpu, now, nextId, delivered>>

\* SELECT ... WHERE multipart_upload_id = ? AND upload_status = 'uploading'
FindUploading(uploadId) ==
  {id \in FileIds : /\ db[id] # NoRow
                    /\ db[id].multipart_upload_id = uploadId
                    /\ db[id].upload_status = "uploading"}

\* UPDATE uploads_v2 SET upload_status = ? WHERE multipart_upload_id = ?
SetStatus(uploadId, status) ==
  [id \in FileIds |->
     IF db[id] # NoRow /\ db[id].multipart_upload_id = uploadId
     THEN [db[id] EXCEPT !.upload_status = status]
     ELSE db[id]]

\* DELETE FROM uploads_v2 WHERE multipart_upload_id = ?
DeleteByUploadId(uploadId) ==
  [id \in FileIds |->
     IF db[id] # NoRow /\ db[id].multipart_upload_id = uploadId
     THEN NoRow
     ELSE db[id]]

\* -------------------------------- POST upload-multipart?action=upload-chunk
ChunkSelect(p, uploadId, chunkIndex) ==
  /\ pc[p] = "idle"
  /\ mpu[uploadId].parts[chunkIndex + 1] < MaxEtag
  /\ IF FindUploading(uploadId) = {}
     THEN Return(p, Out("upload-chunk", uploadId, "NOT_FOUND"))
     ELSE Goto(p, "chunk_put", [NoReq EXCEPT !.id = uploadId, !.pn = chunkIndex + 1])
  /\ UNCHANGED <<db, bucket, mpu, now, nextId, delivered>>

\* uploadChunk numbering parts by arrival: the part goes to the first part
\* number of the session that holds nothing yet.
ChunkPut_NextFreePart(p) ==
  /\ pc[p] = "chunk_put"
  /\ LET u == req[p].id
         free == {k \in PartNumbers : mpu[u].parts[k] = 0}
         n == IF free = {} THEN req[p].pn
              ELSE CHOOSE k \in free : \A j \in free : k <= j IN
       \/ /\ mpu[u].state = "open"
          /\ mpu' = [mpu EXCEPT ![u].parts[n] = @ + 1]
          /\ Return(p, Out("upload-chunk", u, "OK"))
       \/ /\ UNCHANGED mpu
          /\ Return(p, Out("upload-chunk", u, "INTERNAL_ERROR"))
  /\ UNCHANGED <<db, bucket, now, nextId, delivered>>

\* multipartUpload.uploadPart(partNumber, chunkData): a part uploaded again
\* replaces the earlier one and gets a new etag.
ChunkPut(p) ==
  /\ pc[p] = "chunk_put"
  /\ LET u == req[p].id
         n == req[p].pn IN
       \/ /\ mpu[u].state = "open"
          /\ mpu' = [mpu EXCEPT ![u].parts[n] = @ + 1]
          /\ Return(p, Out("upload-chunk", u, "OK"))
       \/ /\ UNCHANGED mpu
          /\ Return(p, Out("upload-chunk", u, "INTERNAL_ERROR"))
  /\ UNCHANGED <<db, bucket, now, nextId, delivered>>

\* ------------------------------------ POST upload-multipart?action=complete
\* The parts list of the request body is not read before the completion call;
\* it is drawn there (CompR2).
CompSelect(p, uploadId) ==
  /\ pc[p] = "idle"
  /\ IF FindUploading(uploadId) = {}
     THEN Return(p, Out("complete", uploadId, "NOT_FOUND"))
     ELSE Goto(p, "comp_r2", [NoReq EXCEPT !.id = uploadId])
  /\ UNCHANGED <<db, bucket, mpu, now, nextId, delivered>>

\* What R2 requires of complete(parts): an open session and a non-empty list
\* of uploaded parts, each named with the etag of its latest upload.
R2Accepts(uploadId, parts) ==
  /\ mpu[uploadId].state = "open"
  /\ Len(parts) > 0
  /\ \A i \in 1..Len(parts) : mpu[uploadId].parts[parts[i].partNumber] = parts[i].etag

\* multipartUpload.complete(parts): the object appears, or R2 rejects the call.
CompR2(p, parts) ==
  /\ pc[p] = "comp_r2"
  /\ LET u == req[p].id IN
       \/ /\ R2Accepts(u, parts)
          /\ mpu' = [mpu EXCEPT ![u].state = "completed"]
          /\ bucket' = bucket \cup {u}
          /\ Goto(p, "comp_done", [req[p] EXCEPT !.parts = parts])
       \/ /\ UNCHANGED <<mpu, bucket>>
          /\ Goto(p, "comp_fail", req[p])
  /\ UNCHANGED <<db, now, nextId, delivered>>

\* UPDATE ... SET upload_status = 'completed'; a throw lands in the catch block.
CompMarkCompleted(p) ==
  /\ pc[p] = "comp_done"
  /\ \/ /\ db' = SetStatus(req[p].id, "completed")
        /\ Return(p, Out("complete", req[p].id, "OK"))
     \/ /\ UNCHANGED db
        /\ Goto(p, "comp_fail", [req[p] EXCEPT !.parts = <<>>])
  /\ UNCHANGED <<bucket, mpu, now, nextId, delivered>>

\* The catch block: UPDATE ... SET upload_status = 'failed', answer 500.
CompMarkFailed(p) ==
  /\ pc[p] = "comp_fail"
  /\ \/ /\ db' = SetStatus(req[p].id, "failed")
        /\ Return(p, Out("complete", req[p].id, "COMPLETE_FAILED"))
     \/ /\ UNCHANGED db
        /\ Return(p, Out("complete", req[p].id, "INTERNAL_ERROR"))
  /\ UNCHANGED <<bucket, mpu, now, nextId, delivered>>

\* --------------------------------------- POST upload-multipart?action=abort
AbortSelect(p, uploadId) ==
  /\ pc[p] = "idle"
  /\ IF FindUploading(uploadId) = {}
     THEN Return(p, Out("abort", uploadId, "NOT_FOUND"))
     ELSE Goto(p, "abort_r2", [NoReq EXCEPT !.id = uploadId])
  /\ UNCHANGED <<db, bucket, mpu, now, nextId, delivered>>

\* multipartUpload.abort(): R2 drops the session and its parts, or throws.
AbortR2(p) ==
  /\ pc[p] = "abort_r2"
  /\ LET u == req[p].id IN
       \/ /\ mpu[u].state = "open"
          /\ mpu' = [mpu EXCEPT ![u] = [state |-> "aborted",
                                        parts |-> [n \in PartNumbers |-> 0]]]
          /\ Goto(p, "abort_delete", req[p])
       \/ /\ UNCHANGED mpu
          /\ Return(p, Out("abort", u, "ABORT_FAILED"))
  /\ UNCHANGED <<db, bucket, now, nextId, delivered>>

\* DELETE FROM uploads_v2 WHERE multipart_upload_id = ?
AbortDelete(p) ==
  /\ pc[p] = "abort_delete"
  /\ \/ /\ db' = DeleteByUploadId(req[p].id)
        /\ Return(p, Out("abort", req[p].id, "OK"))
     \/ /\ UNCHANGED db
        /\ Return(p, Out("abort", req[p].id, "ABORT_FAILED"))
  /\ UNCHANGED <<bucket, mpu, now, nextId, delivered>>

\* ---------------------------------------------------------- specification
\* ------------------------------------------- scheduled cleanup (the sweep)
\* The worker exists in two versions: index.ts ("ts") reads its batch size
\* and time budget from the environment; index-improved.js ("improved"), the
\* one deploy.js names as main, has a fixed batch size and no time budget.
BatchSizes == {1, 2}
MaxExecutionTimes == {0, 25000}

SweepConfigs ==
  [variant : {"ts"}, batchSize : BatchSizes, maxExecutionTime : MaxExecutionTimes]
  \cup [variant : {"improved"}, batchSize : {IMPROVED_BATCH_SIZE}, maxExecutionTime : {0}]

\* The candidate query with the expiry bound included: expires_at <= now.
SweepEligible_ExpiryInclusive(row, t) ==
  /\ row # NoRow
  /\ \/ row.expires_at <= t
     \/ row.is_one_time /\ row.download_count > 0
     \/ row.download_count >= row.max_downloads

\* WHERE expires_at < ? OR (is_one_time = 1 AND download_count > 0)
\*    OR download_count >= max_downloads
SweepEligible(row, t) ==
  /\ row # NoRow
  /\ \/ row.expires_at < t
     \/ row.is_one_time /\ row.download_count > 0
     \/ row.download_count >= row.max_downloads

Min(a, b) == IF a < b THEN a ELSE b

\* ORDER BY expires_at ASC: every order of the eligible rows that is sorted.
OrderedResults(t) ==
  LET C == {id \in FileIds : SweepEligible(db[id], t)} IN
    {r \in [1..Cardinality(C) -> C] :
       /\ \A a, b \in 1..Cardinality(C) : a # b => r[a] # r[b]
       /\ \A a, b \in 1..Cardinality(C) :
            a < b => db[r[a]].expires_at <= db[r[b]].expires_at}

\* LIMIT batchSize * 2 (index.ts only).
Limited(cfg, r) ==
  IF cfg.variant = "ts" THEN SubSeq(r, 1, Min(cfg.batchSize * 2, Len(r))) ELSE r

\* const elapsed = Date.now() - Date.now(): both readings are taken in the
\* same expression.
Elapsed(t) == t * 1000 - t * 1000

\* elapsed > config.maxExecutionTime * 0.8
ExceedsBudget(elapsed, maxExecutionTime) == elapsed * 10 > maxExecutionTime * 8

\* The files of the current batch: results.slice(i, i + batchSize).
BatchLen == Min(sweep.batchSize, Len(sweep.results) - sweep.i)

\* One more error: stats.errors++ and, in index.ts, errors.push(...).
CountError(w) ==
  [w EXCEPT !.errors = @ + 1,
            !.errorsLength = IF w.variant = "ts" THEN @ + 1 ELSE @]

\* performCleanup up to the candidate query of cleanupExpiredFiles / cleanupFiles.
SweepSelect(cfg) ==
  /\ sweep.pc \in {"idle", "done"}
  /\ sweep.runs < MaxSweeps
  /\ LET w == [NoSweep EXCEPT !.variant = cfg.variant,
                              !.batchSize = cfg.batchSize,
                              !.maxExecutionTime = cfg.maxExecutionTime,
                              !.runs = sweep.runs + 1,
                              !.leftover = sweep.leftover] IN
       \/ \E r \in OrderedResults(now) :
            LET results == Limited(cfg, r) IN
              sweep' = [w EXCEPT !.results = results,
                                 !.sizes = [id \in FileIds |->
                                              IF \E n \in 1..Len(results) : results[n] = id
                                              THEN db[id].file_size ELSE 0],
                                 !.filesProcessed = Len(results),
                                 !.i = 0,
                                 !.k = IF Len(results) = 0 THEN 0 ELSE 1,
                                 !.pc = IF Len(results) = 0 THEN "ratelimit" ELSE "object"]
       \* the query fails: index.ts counts it and goes on; index-improved.js
       \* counts it in cleanupFiles and in performCleanup and rethrows
       \/ sweep' = IF cfg.variant = "ts"
                   THEN [CountError(w) EXCEPT !.pc = "ratelimit"]
                   ELSE [CountError(CountError(w)) EXCEPT !.pc = "done", !.fatal = TRUE]
  /\ out' = NoOut
  /\ UNCHANGED <<db, bucket, mpu, now, nextId, pc, req, delivered, client, maint, rl>>

\* processBatch with the try around the whole loop: a failed object deletion
\* ends the file cleanup.
SweepDeleteObject_AbortOnFailure ==
  /\ sweep.pc = "object"
  /\ LET id == sweep.results[sweep.i + sweep.k]
         w == [sweep EXCEPT !.toDelete = Append(@, id),
                            !.attempted = @ \cup {id},
                            !.k = IF sweep.k = BatchLen THEN @ ELSE @ + 1,
                            !.pc = IF sweep.k = BatchLen THEN "rows" ELSE "object"] IN
       \/ /\ bucket' = bucket \ {id}
          /\ sweep' = [w EXCEPT !.filesDeleted = @ + 1,
                                !.storageSpaceFreed = @ + sweep.sizes[id]]
       \/ /\ bucket' = bucket
          /\ sweep' = [CountError(w) EXCEPT !.failed = @ \cup {id}, !.pc = "ratelimit"]
  /\ out' = NoOut
  /\ UNCHANGED <<db, mpu, now, nextId, pc, req, delivered, client, maint, rl>>

\* processBatch that counts a file as deleted before the deletion is tried:
\* a failed object deletion still adds to filesDeleted and storageSpaceFreed.
SweepDeleteObject_CountsBeforeDelete ==
  /\ sweep.pc = "object"
  /\ LET id == sweep.results[sweep.i + sweep.k]
         w == [sweep EXCEPT !.toDelete = Append(@, id),
                            !.attempted = @ \cup {id},
                            !.filesDeleted = @ + 1,
                            !.storageSpaceFreed = @ + sweep.sizes[id],
                            !.k = IF sweep.k = BatchLen THEN @ ELSE @ + 1,
                            !.pc = IF sweep.k = BatchLen THEN "rows" ELSE "object"] IN
       \/ /\ bucket' = bucket \ {id}
          /\ sweep' = w
       \/ /\ bucket' = bucket
          /\ sweep' = [CountError(w) EXCEPT !.failed = @ \cup {id}]
  /\ out' = NoOut
  /\ UNCHANGED <<db, mpu, now, nextId, pc, req, delivered, client, maint, rl>>

\* processBatch whose catch does not mark the row for deletion: a file whose
\* object deletion throws keeps its row.
SweepDeleteObject_SkipOnFailure ==
  /\ sweep.pc = "object"
  /\ LET id == sweep.results[sweep.i + sweep.k]
         w == [sweep EXCEPT !.attempted = @ \cup {id},
                            !.k = IF sweep.k = BatchLen THEN @ ELSE @ + 1,
                            !.pc = IF sweep.k = BatchLen THEN "rows" ELSE "object"] IN
       \/ /\ bucket' = bucket \ {id}
          /\ sweep' = [w EXCEPT !.toDelete = Append(@, id), !.filesDeleted = @ + 1,
                                !.storageSpaceFreed = @ + sweep.sizes[id]]
       \/ /\ bucket' = bucket
          /\ sweep' = [CountError(w) EXCEPT !.failed = @ \cup {id}]
  /\ out' = NoOut
  /\ UNCHANGED <<db, mpu, now, nextId, pc, req, delivered, client, maint, rl>>

\* processBatch: TRANSFER_BUCKET.delete(file.file_name) for the next file of
\* the batch; a throw is counted and the row is still marked for deletion.
SweepDeleteObject ==
  /\ sweep.pc = "object"
  /\ LET id == sweep.results[sweep.i + sweep.k]
         w == [sweep EXCEPT !.toDelete = Append(@, id),
                            !.attempted = @ \cup {id},
                            !.k = IF sweep.k = BatchLen THEN @ ELSE @ + 1,
                            !.pc = IF sweep.k = BatchLen THEN "rows" ELSE "object"] IN
       \/ /\ bucket' = bucket \ {id}
          /\ sweep' = [w EXCEPT !.filesDeleted = @ + 1,
                                !.storageSpaceFreed = @ + sweep.sizes[id]]
       \/ /\ bucket' = bucket
          /\ sweep' = [CountError(w) EXCEPT !.failed = @ \cup {id}]
  /\ out' = NoOut
  /\ UNCHANGED <<db, mpu, now, nextId, pc, req, delivered, client, maint, rl>>

\* After a batch: the time check of index.ts, then the next batch or the end.
AfterBatch(w) ==
  IF w.variant = "ts" /\ ExceedsBudget(Elapsed(now), w.maxExecutionTime)
  THEN [w EXCEPT !.pc = "ratelimit"]
  ELSE IF w.i + w.batchSize < Len(w.results)
       THEN [w EXCEPT !.i = @ + w.batchSize, !.k = 1, !.toDelete = <<>>, !.pc = "object"]
       ELSE [w EXCEPT !.pc = "ratelimit"]

\* processBatch: DELETE FROM uploads_v2 WHERE file_id IN (...); a failure is counted.
SweepDeleteRows ==
  /\ sweep.pc = "rows"
  /\ \/ /\ db' = [id \in FileIds |->
                    IF \E n \in 1..Len(sweep.toDelete) : sweep.toDelete[n] = id
                    THEN NoRow ELSE db[id]]
        /\ sweep' = AfterBatch(sweep)
     \/ /\ db' = db
        /\ sweep' = AfterBatch(CountError(sweep))
  /\ out' = NoOut
  /\ UNCHANGED <<bucket, mpu, now, nextId, pc, req, delivered, client, maint, rl>>

\* The result: index.ts answers success exactly when its errors array is
\* empty; the fetch handler of index-improved.js answers success: true
\* whenever performCleanup returned.
SweepResult(w) ==
  [w EXCEPT !.pc = "done",
            !.success = IF w.variant = "ts" THEN w.errorsLength = 0 ELSE TRUE]

\* cleanupRateLimitData / cleanupRateLimits: a failure is counted; then the
\* maintenance, which changes no stats, and the result.
SweepRateLimit ==
  /\ sweep.pc = "ratelimit"
  /\ \/ sweep' = [SweepResult(sweep) EXCEPT !.ranRateLimit = TRUE]
     \/ sweep' = [SweepResult(CountError(sweep)) EXCEPT !.ranRateLimit = TRUE]
  /\ out' = NoOut
  /\ UNCHANGED <<db, bucket, mpu, now, nextId, pc, req, delivered, client, maint, rl>>

\* The next scheduled invocation: scheduled() starts performCleanup with fresh
\* locals.  leftover remembers the eligible rows the last sweep left behind.
SweepSchedule ==
  /\ sweep.pc = "done"
  /\ sweep' = [NoSweep EXCEPT
                 !.leftover = {id \in FileIds : SweepEligible(db[id], now)}]
  /\ out' = NoOut
  /\ UNCHANGED <<db, bucket, mpu, now, nextId, pc, req, delivered, client, maint, rl>>

\* ------------------------------------------------- the bucket's other users
\* An operator deletes an object from the bucket by hand.
OutOfBandDelete(id) ==
  /\ id \in bucket
  /\ bucket' = bucket \ {id}
  /\ out' = NoOut
  /\ UNCHANGED <<db, mpu, now, nextId, pc, req, delivered, sweep, client, maint, rl>>

Download(p, Ids) ==
  \/ \E id \in Ids, password \in Passwords : DlSelect(p, id, password)
  \/ DlGet(p)
  \/ DlCleanup(p)
  \/ DlUpdate(p)

Upload(p, Options, Ids) ==
  \/ \E o \in Options : nextId \in Ids /\ UpPut(p, o)
  \/ UpInsert(p)
  \/ UpCleanup(p)

Initiate(p, Options, Ids) ==
  \/ \E o \in Options : nextId \in Ids /\ InitCreate(p, o)
  \/ InitInsert(p)

Chunk(p, Ids) ==
  \/ \E u \in Ids, chunkIndex \in 0..(MaxParts - 1) : ChunkSelect(p, u, chunkIndex)
  \/ ChunkPut(p)

Complete(p, Ids) ==
  \/ \E u \in Ids : CompSelect(p, u)
  \/ \E parts \in PartLists : CompR2(p, parts)
  \/ CompMarkCompleted(p)
  \/ CompMarkFailed(p)

Abort(p, Ids) ==
  \/ \E u \in Ids : AbortSelect(p, u)
  \/ AbortR2(p)
  \/ AbortDelete(p)

Gate(Ids) == \E id \in Ids, password \in Passwords : Validate(id, password)

\* ------------------------------------- MultipartUploader.upload (browser)
\* The client's view of one upload.  The responses of its fetch calls are its
\* inputs: initiate answers with the server's totalChunks, a chunk request or
\* the complete request succeeds or fails.
Max(a, b) == IF a > b THEN a ELSE b

\* file.slice(start, end): Blob.slice clamps both offsets to the blob's size
\* and yields an empty blob when end is not after start.
Slice(size, start, end) ==
  [start |-> Min(start, size), end |-> Max(Min(end, size), Min(start, size))]

\* Step 1: POST ?action=initiate, then read uploadId and totalChunks from
\* the response.
ClientInitiate(size, chunkSize) ==
  /\ client.pc = "idle"
  /\ \/ /\ validateFile(size)
        /\ client' = [client EXCEPT !.pc = "chunks", !.fileSize = size,
                                    !.chunkSize = chunkSize,
                                    !.totalChunks = totalChunks(size)]
     \/ client' = [client EXCEPT !.pc = "done", !.fileSize = size,
                                 !.chunkSize = chunkSize, !.success = FALSE]
     \* no response ever arrives: this fetch has no signal and no timer
     \/ client' = [client EXCEPT !.pc = "hung", !.fileSize = size,
                                 !.chunkSize = chunkSize]
  /\ out' = NoOut
  /\ UNCHANGED <<db, bucket, mpu, now, nextId, pc, req, delivered, sweep, maint, rl>>

RECURSIVE Pow2(_)
Pow2(n) == IF n <= 0 THEN 1 ELSE 2 * Pow2(n - 1)

\* Math.min(1000 * Math.pow(2, retryCount - 1), 5000)
waitTime(retryCount) == Min(1000 * Pow2(retryCount - 1), 5000)

\* The chunk loop whose exhausted retries abort the session without
\* returning: the loop goes on with the next chunk.
ClientUploadChunk_GoesOnAfterAbort ==
  /\ client.pc = "chunks"
  /\ LET start == client.chunkIndex * client.chunkSize
         end == Min(start + client.chunkSize, client.fileSize)
         chunk == Slice(client.fileSize, start, end)
         next == client.chunkIndex + 1
     IN \/ client' = [client EXCEPT
                        !.slices = Append(@, chunk),
                        !.chunkIndex = next,
                        !.retryCount = 0,
                        !.waited = <<>>,
                        !.pc = IF next < client.totalChunks THEN "chunks"
                               ELSE "complete"]
        \/ IF client.retryCount + 1 > maxRetries
           THEN client' = [client EXCEPT
                             !.chunkIndex = next, !.retryCount = 0, !.waited = <<>>,
                             !.aborted = TRUE,
                             !.pc = IF next < client.totalChunks THEN "chunks"
                                    ELSE "complete"]
           ELSE client' = [client EXCEPT
                             !.retryCount = @ + 1,
                             !.waited = Append(@, waitTime(client.retryCount + 1))]
  /\ out' = NoOut
  /\ UNCHANGED <<db, bucket, mpu, now, nextId, pc, req, delivered, sweep, maint, rl>>

\* Step 2: one attempt to send chunk chunkIndex.  The for loop ends when
\* chunkIndex reaches totalChunks.  A failed attempt is followed by a wait and
\* a retry, or after maxRetries retries by abortUpload and the return.  A chunk
\* request without a response is ended by its 120 s timer (controller.abort)
\* and counts as a failed attempt; the fetch of abortUpload has no timer.
ClientUploadChunk ==
  /\ client.pc = "chunks"
  /\ LET start == client.chunkIndex * client.chunkSize
         end == Min(start + client.chunkSize, client.fileSize)
         chunk == Slice(client.fileSize, start, end)
         next == client.chunkIndex + 1
     IN \/ client' = [client EXCEPT
                        !.slices = Append(@, chunk),
                        !.chunkIndex = next,
                        !.retryCount = 0,
                        !.waited = <<>>,
                        !.pc = IF next < client.totalChunks THEN "chunks"
                               ELSE "complete"]
        \/ IF client.retryCount + 1 > maxRetries
           THEN \E answered \in BOOLEAN :
                  client' = [client EXCEPT
                               !.retryCount = @ + 1, !.success = FALSE,
                               !.aborted = TRUE,
                               !.pc = IF answered THEN "done" ELSE "hung"]
           ELSE client' = [client EXCEPT
                             !.retryCount = @ + 1,
                             !.waited = Append(@, waitTime(client.retryCount + 1))]
  /\ out' = NoOut
  /\ UNCHANGED <<db, bucket, mpu, now, nextId, pc, req, delivered, sweep, maint, rl>>

\* Step 3: POST ?action=complete.  A failure response is followed by
\* abortUpload; a fetch that throws lands in the outer catch, which does not
\* abort.  Neither the complete nor the abort fetch has a timer.
ClientComplete ==
  /\ client.pc = "complete"
  /\ \/ client' = [client EXCEPT !.pc = "done", !.success = TRUE]
     \/ \E answered \in BOOLEAN :
          client' = [client EXCEPT !.success = FALSE, !.aborted = TRUE,
                                   !.pc = IF answered THEN "done" ELSE "hung"]
     \/ client' = [client EXCEPT !.pc = "done", !.success = FALSE]
     \/ client' = [client EXCEPT !.pc = "hung"]
  /\ out' = NoOut
  /\ UNCHANGED <<db, bucket, mpu, now, nextId, pc, req, delivered, sweep, maint, rl>>

\* The page starts the next upload.
ClientReset ==
  /\ client.pc = "done"
  /\ client' = NoClient
  /\ out' = NoOut
  /\ UNCHANGED <<db, bucket, mpu, now, nextId, pc, req, delivered, sweep, maint, rl>>


\* ------------------------------- performDatabaseMaintenance (index.ts)
\* The maintenance step of a sweep; a scheduled and a manually triggered
\* sweep may run it at the same time.  Every await may throw into the catch,
\* which ends the step.
\* SELECT value FROM metadata WHERE key = 'last_vacuum', then shouldVacuum.
MaintRead(w) ==
  /\ maint.pc[w] = "idle"
  /\ maint.runs < MaxMaint
  /\ \/ LET shouldVacuum == \/ maint.lastVacuum = -1
                            \/ (now - maint.lastVacuum) > vacuumInterval IN
          maint' = [maint EXCEPT !.runs = @ + 1,
                                 !.currentTime[w] = now,
                                 !.pc[w] = IF shouldVacuum THEN "vacuum" ELSE "idle"]
     \/ maint' = [maint EXCEPT !.runs = @ + 1]
  /\ out' = NoOut
  /\ UNCHANGED <<db, bucket, mpu, now, nextId, pc, req, delivered, sweep, client, rl>>

\* env.DB.exec('VACUUM')
MaintVacuum(w) ==
  /\ maint.pc[w] = "vacuum"
  /\ \/ maint' = [maint EXCEPT !.vacuums = Append(@, now), !.pc[w] = "write"]
     \/ maint' = [maint EXCEPT !.pc[w] = "idle"]
  /\ out' = NoOut
  /\ UNCHANGED <<db, bucket, mpu, now, nextId, pc, req, delivered, sweep, client, rl>>

\* INSERT OR REPLACE INTO metadata (key, value) VALUES ('last_vacuum', currentTime)
MaintWrite(w) ==
  /\ maint.pc[w] = "write"
  /\ \/ maint' = [maint EXCEPT !.lastVacuum = maint.currentTime[w], !.pc[w] = "idle"]
     \/ maint' = [maint EXCEPT !.pc[w] = "idle"]
  /\ out' = NoOut
  /\ UNCHANGED <<db, bucket, mpu, now, nextId, pc, req, delivered, sweep, client, rl>>

Maintenance ==
  \E w \in Workers : MaintRead(w) \/ MaintVacuum(w) \/ MaintWrite(w)

\* ------------------------------------------ checkRateLimit (_middleware.ts)
\* The requests of one client IP to the upload endpoint.  Every statement may
\* throw into the catch, which lets the request through.
\* rate_limits rows of the key with timestamp >= windowStart
CountSince(rows, windowStart) ==
  LET S == {t \in Times : t >= windowStart}
      f[T \in SUBSET S] ==
        IF T = {} THEN 0
        ELSE LET x == CHOOSE y \in T : TRUE IN rows[x] + f[T \ {x}]
  IN f[S]

\* currentTime, windowStart, DELETE FROM rate_limits WHERE timestamp < windowStart
RlClean(r) ==
  /\ rl.pc[r] = "start"
  /\ \/ rl' = [rl EXCEPT !.currentTime[r] = now,
                         !.rows = [t \in Times |->
                                     IF t < now - UPLOAD_WINDOW THEN 0 ELSE rl.rows[t]],
                         !.pc[r] = "count"]
     \/ rl' = [rl EXCEPT !.pc[r] = "passed", !.passedAt[r] = now]
  /\ out' = NoOut
  /\ UNCHANGED <<db, bucket, mpu, now, nextId, pc, req, delivered, sweep, client, maint>>

\* SELECT COUNT(*), then the comparison with limitConfig.requests
RlCount(r) ==
  /\ rl.pc[r] = "count"
  /\ \/ LET currentCount == CountSince(rl.rows, rl.currentTime[r] - UPLOAD_WINDOW) IN
          rl' = [rl EXCEPT !.pc[r] = IF currentCount >= UPLOAD_REQUESTS
                                     THEN "rejected" ELSE "insert"]
     \/ rl' = [rl EXCEPT !.pc[r] = "passed", !.passedAt[r] = now]
  /\ out' = NoOut
  /\ UNCHANGED <<db, bucket, mpu, now, nextId, pc, req, delivered, sweep, client, maint>>

\* INSERT INTO rate_limits (client_key, timestamp), then allowed: true
RlInsert(r) ==
  /\ rl.pc[r] = "insert"
  /\ \/ rl' = [rl EXCEPT !.rows[rl.currentTime[r]] = @ + 1,
                         !.pc[r] = "passed", !.passedAt[r] = now]
     \/ rl' = [rl EXCEPT !.pc[r] = "passed", !.passedAt[r] = now]
  /\ out' = NoOut
  /\ UNCHANGED <<db, bucket, mpu, now, nextId, pc, req, delivered, sweep, client, maint>>

RateLimit ==
  \E r \in Requests : RlClean(r) \/ RlCount(r) \/ RlInsert(r)

Client ==
  \/ \E size \in ClientFileSizes, chunkSize \in ClientChunkSizes :
       ClientInitiate(size, chunkSize)
  \/ ClientUploadChunk
  \/ ClientComplete
  \/ ClientReset

Sweep ==
  \/ \E cfg \in SweepConfigs : SweepSelect(cfg)
  \/ SweepDeleteObject
  \/ SweepDeleteRows
  \/ SweepRateLimit

Next ==
  \/ Tick
  \/ Gate(FileIds)
  \/ \E p \in Procs : Download(p, FileIds)
  \/ \E p \in Procs : Upload(p, SimpleOptions, FileIds)
  \/ Sweep
  \/ \E id \in FileIds : OutOfBandDelete(id)
  \/ \E p \in Procs : Initiate(p, ChunkedOptions, FileIds)
  \/ \E p \in Procs : Chunk(p, FileIds)
  \/ \E p \in Procs : Complete(p, FileIds)
  \/ \E p \in Procs : Abort(p, FileIds)
  \/ Client
  \/ SweepSchedule
  \/ Maintenance
  \/ RateLimit

Spec == Init /\ [][Next]_vars

\* The simple upload and the gate, on the first MaxUploads files.
NextGate ==
  \/ Tick
  \/ Gate(UploadIds)
  \/ \E p \in Procs : Download(p, UploadIds)
  \/ \E p \in Procs : Upload(p, SimpleOptions, UploadIds)
  \/ \E id \in UploadIds : OutOfBandDelete(id)

SpecGate == Init /\ [][NextGate]_vars

\* The chunked upload session and the validate endpoint, on the first
\* MaxUploads files.
NextSession ==
  \/ Gate(UploadIds)
  \/ \E p \in Procs : Initiate(p, SessionOptions, UploadIds)
  \/ \E p \in Procs : Chunk(p, UploadIds)
  \/ \E p \in Procs : Complete(p, UploadIds)
  \/ \E p \in Procs : Abort(p, UploadIds)

SpecSession == Init /\ [][NextSession]_vars

\* Downloads of a file whose chunked upload is in progress.
NextCross ==
  \/ \E p \in Procs : Download(p, UploadIds)
  \/ \E p \in Procs : Initiate(p, CrossOptions, UploadIds)
  \/ \E p \in Procs : Chunk(p, UploadIds)
  \/ \E p \in Procs : Complete(p, UploadIds)

SpecCross == Init /\ [][NextCross]_vars

\* A chunked upload that takes longer than its lifetime, the gate and the worker.
NextSlow ==
  \/ Tick
  \/ Gate(UploadIds)
  \/ \E p \in Procs : Initiate(p, SlowOptions, UploadIds)
  \/ \E p \in Procs : Chunk(p, UploadIds)
  \/ Sweep

SpecSlow == Init /\ [][NextSlow]_vars

\* The cleanup worker over files that one uploader stores and the clock expires.
NextSweep ==
  \/ Tick
  \/ Upload(1, SweepOptions, FileIds)
  \/ Sweep

SpecSweep == Init /\ [][NextSweep]_vars

\* The gate and the cleanup worker on the same file: downloads use the file
\* up while sweeps run.
NextCollect ==
  \/ Tick
  \/ Upload(1, SimpleOptions, UploadIds)
  \/ Download(1, UploadIds)
  \/ Sweep

SpecCollect == Init /\ [][NextCollect]_vars

\* The worker on its cron trigger, sweep after sweep.  The trigger keeps
\* firing and every step of a sweep is taken; the candidate query and the
\* batched row deletion may fail, but not forever.  Object deletions may fail
\* every time.
NextLive ==
  \/ Tick
  \/ Upload(1, SweepOptions, FileIds)
  \/ Sweep
  \/ SweepSchedule

SelectSucceeds == (\E cfg \in SweepConfigs : SweepSelect(cfg)) /\ sweep'.pc = "object"

DeleteRowsSucceeds == SweepDeleteRows /\ db' # db

SpecLive ==
  /\ Init /\ [][NextLive]_vars
  /\ WF_vars(Sweep \/ SweepSchedule)
  /\ SF_vars(SelectSucceeds)
  /\ SF_vars(DeleteRowsSucceeds)

\* The worker's statistics over files of different sizes.
NextFreed ==
  \/ Tick
  \/ Upload(1, FreedOptions, FileIds)
  \/ Sweep

SpecFreed == Init /\ [][NextFreed]_vars

\* The maintenance steps of a scheduled and a manual sweep, and the clock.
NextMaint ==
  \/ Tick
  \/ Maintenance

SpecMaint == Init /\ [][NextMaint]_vars

\* The rate-limit middleware under concurrent requests of one client, and the clock.
NextRate ==
  \/ Tick
  \/ RateLimit

SpecRate == Init /\ [][NextRate]_vars

\* The browser's uploader alone.
NextClient == Client

SpecClient == Init /\ [][NextClient]_vars

\* ------------------------------------------------------------------ claims
IsOneTime(id) == HasRow(id) /\ db[id].is_one_time

\* C1: once one of two concurrent downloads of a one-time file has received
\* the body, the other one, arriving at its conditional update, is rejected
\* and download_count stays at exactly 1.
C1_OneTimeRaceHasOneWinner ==
  [][\A p \in Procs :
       (/\ pc[p] = "dl_update"
        /\ pc'[p] = "idle"
        /\ IsOneTime(req[p].id)
        /\ delivered[req[p].id] >= 1)
       => (/\ out'.code # "BODY"
           /\ db'[req[p].id].download_count = 1)]_vars

\* C2: a download whose conditional increment changes zero rows answers with
\* an error and delivers no body.
C2_ZeroRowsUpdateFails ==
  [][\A p \in Procs :
       (/\ pc[p] = "dl_update"
        /\ pc'[p] = "idle"
        /\ UpdateChanges(req[p].id) = 0)
       => (/\ out'.code # "BODY"
           /\ delivered' = delivered)]_vars

\* C3: every row of uploads_v2 has 0 <= download_count <= max_downloads.
C3_CountWithinLimit ==
  \A id \in FileIds :
    HasRow(id) => (0 <= db[id].download_count
                   /\ db[id].download_count <= db[id].max_downloads)

\* C4: at most one response ever carries the body of a one-time file.
C4_OneTimeDeliveredOnce ==
  \A id \in FileIds : IsOneTime(id) => delivered[id] <= 1

\* C5: validate answers GRANTED, and download answers with the body, only for
\* a row whose upload_status is completed.
C5_OnlyCompletedGranted ==
  (/\ out.op \in {"validate", "download"}
   /\ out.code \in {"GRANTED", "BODY"}
   /\ HasRow(out.id))
  => db[out.id].upload_status = "completed"

\* C6: expires_at is written once, when the object's bytes are already stored
\* in the bucket, and no later step changes it.
C6_ExpiresAtOnceAfterBytes ==
  [][\A id \in FileIds :
       /\ (db[id] = NoRow /\ db'[id] # NoRow) => id \in bucket'
       /\ (db[id] # NoRow /\ db'[id] # NoRow)
            => db'[id].expires_at = db[id].expires_at]_vars

\* The parts list names every part number 1..n.
CoversAll(parts, n) ==
  \A k \in 1..n : \E i \in 1..Len(parts) : parts[i].partNumber = k

\* C7: a complete request whose parts list does not cover 1..totalChunks is
\* not answered with success and leaves upload_status uploading or failed.
C7_IncompletePartSetRejected ==
  [][\A p \in Procs :
       (/\ pc[p] = "comp_done"
        /\ pc'[p] = "idle"
        /\ HasRow(req[p].id)
        /\ ~CoversAll(req[p].parts, totalChunks(db[req[p].id].file_size)))
       => (/\ out'.code # "OK"
           /\ db'[req[p].id].upload_status \in {"uploading", "failed"})]_vars

\* The session was aborted in R2 and its row is gone.
Aborted(u) == mpu[u].state = "aborted" /\ db[u] = NoRow

\* C8: an abort request for a session that an earlier abort has removed from
\* both stores is acknowledged too, and both stores stay clean.
C8_AbortTwiceAcknowledged ==
  [][\A p \in Procs, u \in FileIds :
       (Aborted(u) /\ AbortSelect(p, u))
       => (out'.code = "OK" /\ Aborted(u)')]_vars

\* The object store rejected the completion: the row is failed, the session open.
FailedSession(u) ==
  HasRow(u) /\ db[u].upload_status = "failed" /\ mpu[u].state = "open"

\* C9: an abort request for a session whose completion failed is not turned
\* away: it goes on to abort the multipart session and delete the row.
C9_FailedSessionAbortable ==
  [][\A p \in Procs, u \in FileIds :
       (FailedSession(u) /\ AbortSelect(p, u)) => pc'[p] = "abort_r2"]_vars

\* C10: a complete request for a session whose completion failed is accepted:
\* it goes on to the object store's completion call.
C10_FailedSessionRecompletable ==
  [][\A p \in Procs, u \in FileIds :
       (FailedSession(u) /\ CompSelect(p, u)) => pc'[p] = "comp_r2"]_vars

\* C11: a simple upload that answers with an error leaves no object of that
\* upload in the bucket.
C11_FailedUploadLeavesNoObject ==
  (out.op = "upload" /\ out.code # "OK") => out.id \notin bucket

\* The row is present, unexpired, unconsumed and under its download limit.
Live(row, t) ==
  /\ row # NoRow
  /\ ~(row.expires_at < t)
  /\ ~(row.is_one_time /\ row.download_count > 0)
  /\ row.download_count < row.max_downloads

\* The decision the password scenario expects for a credential.
ExpectedForPassword(row, password) ==
  IF password = "" THEN "PASSWORD_REQUIRED"
  ELSE IF password # row.password_hash.pw THEN "INVALID_PASSWORD"
  ELSE "GRANTED"

\* C12: for a live row uploaded with a password, validate and download answer
\* PASSWORD_REQUIRED without a credential, INVALID_PASSWORD for a different
\* one, and grant access for the password given at upload.
C12_PasswordScenario ==
  [][\A id \in FileIds, password \in Passwords :
       (Live(db[id], now) /\ db[id].has_password)
       => /\ Validate(id, password)
               => out'.code = ExpectedForPassword(db[id], password)
          /\ \A p \in Procs :
               DlSelect(p, id, password)
               => IF ExpectedForPassword(db[id], password) = "GRANTED"
                  THEN pc'[p] = "dl_get"
                  ELSE out'.code = ExpectedForPassword(db[id], password)]_vars

\* The fixed order of checks: missing or not completed, expired, consumed,
\* limit reached, password required, invalid password, else granted.
FixedOrder(row, t, password) ==
  CASE row = NoRow \/ row.upload_status # "completed" -> "FILE_NOT_FOUND"
    [] OTHER ->
       CASE row.expires_at < t -> "FILE_EXPIRED"
         [] OTHER ->
            CASE row.is_one_time /\ row.download_count > 0 -> "FILE_CONSUMED"
              [] OTHER ->
                 CASE row.download_count >= row.max_downloads -> "DOWNLOAD_LIMIT_REACHED"
                   [] OTHER ->
                      CASE row.has_password /\ password = "" -> "PASSWORD_REQUIRED"
                        [] OTHER ->
                           CASE row.has_password
                                /\ Sha256Hash(password, row.salt) # row.password_hash
                                  -> "INVALID_PASSWORD"
                             [] OTHER -> "GRANTED"

\* C13: validate and download both answer with the first check of the fixed
\* order that applies, so they reach the same decision on the same row, time
\* and credential.
C13_GateFixedOrder ==
  [][\A id \in FileIds, password \in Passwords :
       /\ Validate(id, password) => out'.code = FixedOrder(db[id], now, password)
       /\ \A p \in Procs :
            DlSelect(p, id, password)
            => IF FixedOrder(db[id], now, password) = "GRANTED"
               THEN pc'[p] = "dl_get"
               ELSE out'.code = FixedOrder(db[id], now, password)]_vars

\* A validate request on an unexpired row without password whose limit is 1.
SingleDownloadRow(id) ==
  /\ HasRow(id)
  /\ db[id].max_downloads = 1
  /\ ~db[id].has_password
  /\ ~(db[id].expires_at < now)

RowWithoutObject(id) ==
  HasRow(id) /\ db[id].upload_status = "completed" /\ id \notin bucket

\* C15: a validate request that reads a row whose object is gone from the
\* bucket removes that row.
C15_ValidateRemovesOrphanRow ==
  [][\A id \in FileIds, password \in Passwords :
       (RowWithoutObject(id) /\ Validate(id, password)) => db'[id] = NoRow]_vars

\* C16: a sweep of index.ts run with maxExecutionTime = 0 ends without having
\* started a batch and reports filesProcessed = 0.
C16_ZeroBudgetStartsNoBatch ==
  (sweep.pc = "done" /\ sweep.variant = "ts" /\ sweep.maxExecutionTime = 0)
  => (sweep.attempted = {} /\ sweep.filesProcessed = 0)

\* Every file the candidate query returned has had its object deletion attempted.
AllAttempted(w) == \A n \in 1..Len(w.results) : w.results[n] \in w.attempted

\* C17: a failed object deletion adds one to errors and the batch goes on; a
\* sweep in which a deletion failed still ends with its stats, having
\* attempted every file of every batch.
C17_ObjectFailureDoesNotAbort ==
  [][/\ (sweep.pc = "object" /\ sweep'.failed # sweep.failed)
          => (/\ sweep'.errors = sweep.errors + 1
              /\ sweep'.pc = IF sweep.k = BatchLen THEN "rows" ELSE "object")
     /\ (sweep'.pc = "done" /\ sweep'.failed # {})
          => (~sweep'.fatal /\ AllAttempted(sweep'))]_vars

C17_Witness ==
  /\ sweep.pc = "done"
  /\ sweep.batchSize = 2
  /\ Len(sweep.results) = 3
  /\ sweep.failed = {sweep.results[1]}
  /\ sweep.errors = 1
  /\ AllAttempted(sweep)

\* C18: when the sweep deletes a row, the object of that row is not in the bucket.
C18_SweptRowHasNoObject ==
  [][\A id \in FileIds :
       (sweep.pc = "rows" /\ db[id] # NoRow /\ db'[id] = NoRow) => id \notin bucket']_vars

\* C19: a finished sweep has returned its stats, and it reports success
\* exactly when its errors count is 0.
C19_SuccessIffNoErrors ==
  sweep.pc = "done" => (~sweep.fatal /\ (sweep.success <=> sweep.errors = 0))

\* C20: an upload-chunk request for part number n of a session changes
\* nothing but that session's part n, which then holds the upload just made:
\* the row, the bucket, the session's state and every other part stay as
\* they were, however often the part is uploaded.
C20_ChunkUploadTouchesOnlyItsPart ==
  [][\A p \in Procs :
       (pc[p] = "chunk_put" /\ pc'[p] = "idle")
       => LET u == req[p].id
              n == req[p].pn IN
            /\ db' = db
            /\ bucket' = bucket
            /\ \A v \in FileIds : mpu'[v].state = mpu[v].state
            /\ \A v \in FileIds, k \in PartNumbers :
                 (v # u \/ k # n) => mpu'[v].parts[k] = mpu[v].parts[k]
            /\ mpu'[u].parts[n] =
                 IF out'.code = "OK" THEN mpu[u].parts[n] + 1 ELSE mpu[u].parts[n]]_vars

\* A part has been uploaded a second time.
C20_Witness ==
  /\ out.op = "upload-chunk"
  /\ out.code = "OK"
  /\ \E n \in PartNumbers :
       /\ mpu[out.id].parts[n] = 2
       /\ \A k \in PartNumbers \ {n} : mpu[out.id].parts[k] = 0

\* C21: the candidates of a sweep are at most 2 x batchSize rows, each
\* eligible at query time, in ascending expires_at order, and the sweep deletes
\* no row outside them.
C21_SelectionBoundedEligibleOrdered ==
  [][/\ sweep'.runs # sweep.runs
          => LET r == sweep'.results IN
               /\ Len(r) <= 2 * sweep'.batchSize
               /\ \A n \in 1..Len(r) : SweepEligible(db[r[n]], now)
               /\ \A a, b \in 1..Len(r) :
                    a < b => db[r[a]].expires_at <= db[r[b]].expires_at
     /\ \A id \in FileIds :
          (sweep.pc = "rows" /\ db[id] # NoRow /\ db'[id] = NoRow)
          => \E n \in 1..Len(sweep.results) : sweep.results[n] = id]_vars

\* C22: no step of a download request deletes the row of a chunked upload
\* that is still uploading.
C22_DownloadKeepsUploadingRow ==
  [][\A p \in Procs, id \in FileIds :
       (/\ pc[p] \in {"dl_get", "dl_cleanup", "dl_update"}
        /\ pc'[p] # pc[p]
        /\ HasRow(id)
        /\ db[id].upload_status = "uploading")
       => db'[id] # NoRow]_vars

Uploading(id) == HasRow(id) /\ db[id].upload_status = "uploading"

\* C23: a row that is still uploading is never answered FILE_EXPIRED by
\* validate, and no sweep selects it because its expires_at has passed.
C23_UploadingNeverExpires ==
  [][/\ \A id \in FileIds, password \in Passwords :
          (Uploading(id) /\ Validate(id, password)) => out'.code # "FILE_EXPIRED"
     /\ sweep'.runs # sweep.runs
          => \A n \in 1..Len(sweep'.results) :
               Uploading(sweep'.results[n])
               => ~(db[sweep'.results[n]].expires_at < now)]_vars

\* C24: a body is delivered only by the step of a download request that has
\* run the conditional UPDATE, in a response that carries the body; a
\* download response that reports an error delivers nothing.
C24_UpdateBeforeBody ==
  [][/\ \A id \in FileIds :
          delivered'[id] # delivered[id]
          => \E p \in Procs :
               /\ pc[p] = "dl_update" /\ pc'[p] = "idle" /\ req[p].id = id
               /\ out' = Out("download", id, "BODY")
               /\ delivered'[id] = delivered[id] + 1
               /\ HasRow(id) =>
                    db'[id].download_count = db[id].download_count + UpdateChanges(id)
     /\ (out'.op = "download" /\ out'.code # "BODY") => delivered' = delivered]_vars

C24_Witness ==
  /\ out = Out("download", 1, "BODY")
  /\ delivered[1] = 1
  /\ HasRow(1)
  /\ db[1].download_count = 1

\* C25: a row whose multipart upload the object store has completed never has
\* upload_status failed.
C25_CompletedNeverFailed ==
  \A u \in FileIds :
    (mpu[u].state = "completed" /\ HasRow(u)) => db[u].upload_status # "failed"

RECURSIVE SumSizes(_)
SumSizes(slices) ==
  IF slices = <<>> THEN 0
  ELSE (Head(slices).end - Head(slices).start) + SumSizes(Tail(slices))

Contiguous(slices) ==
  /\ slices # <<>> => slices[1].start = 0
  /\ \A i \in 1..(Len(slices) - 1) : slices[i + 1].start = slices[i].end

\* C26: when MultipartUploader.upload returns success, the slices it uploaded
\* are contiguous from offset 0, disjoint, and their sizes sum to file.size.
C26_PartsCoverFile ==
  (client.pc = "done" /\ client.success) =>
    /\ Contiguous(client.slices)
    /\ \A i \in 1..Len(client.slices) : client.slices[i].start <= client.slices[i].end
    /\ SumSizes(client.slices) = client.fileSize

\* C27: when initiate returns an internal error, the object store holds no
\* open multipart session for the identifier it had drawn: a session created
\* before the failing metadata insert has been aborted.
C27_FailedInitiateLeavesNoSession ==
  (out.op = "initiate" /\ out.code = "INTERNAL_ERROR" /\ out.id \in FileIds) =>
    mpu[out.id].state # "open"

\* C28: a chunked session that never completes does not outlive its row in
\* the object store: when the row of a session that is not completed is
\* deleted, its multipart session is no longer open.  (Every handler finds a
\* session through its row, so a session left open at that point stays open.)
C28_RemovedSessionIsClosed ==
  [][\A u \in FileIds :
       (HasRow(u) /\ db[u].upload_status # "completed" /\ db'[u] = NoRow)
         => mpu'[u].state # "open"]_vars

Denials == {"FILE_EXPIRED", "FILE_CONSUMED", "DOWNLOAD_LIMIT_REACHED"}

\* C29: every row a sweep has selected is one the gate denies as expired,
\* consumed or over its limit, whatever the credential, at the query and at
\* any later time at which the row still exists.
C29_SelectedRowsAreDenied ==
  \A n \in 1..Len(sweep.results) :
    HasRow(sweep.results[n]) =>
      \A password \in Passwords :
        GateDecision(db[sweep.results[n]], now, password) \in Denials

\* A sweep has deleted a row that downloads had used up before its lifetime ended.
C29_Witness ==
  /\ sweep.pc = "done"
  /\ \E n \in 1..Len(sweep.results) :
       /\ ~HasRow(sweep.results[n])
       /\ delivered[sweep.results[n]] > 0
       /\ now = 0

\* C30: with sweeps invoked again and again and metadata operations that do
\* not fail forever, every row that satisfies the eligibility predicate is
\* eventually removed from the metadata store.
C30_EligibleEventuallyRemoved ==
  \A id \in FileIds : SweepEligible(db[id], now) ~> (db[id] = NoRow)

\* A later sweep has removed a row that the sweep before it left behind.
C30_Witness ==
  /\ sweep.pc = "done"
  /\ \E id \in sweep.leftover : db[id] = NoRow

GateDenials ==
  {"FILE_EXPIRED", "FILE_CONSUMED", "DOWNLOAD_LIMIT_REACHED",
   "PASSWORD_REQUIRED", "INVALID_PASSWORD"}

\* C31: a validate request, and a download request denied as expired,
\* consumed, over its limit, password required or invalid password, changes
\* neither store; and a record whose creation is finished (upload_status
\* completed) changes only by a download_count increment or by its deletion.
C31_RecordFrame ==
  [][/\ (out'.op = "validate" \/ (out'.op = "download" /\ out'.code \in GateDenials))
          => UNCHANGED <<db, bucket, mpu>>
     /\ \A id \in FileIds :
          (HasRow(id) /\ db[id].upload_status = "completed")
            => \/ db'[id] = db[id]
               \/ db'[id] = NoRow
               \/ db'[id] = [db[id] EXCEPT !.download_count = @ + 1]]_vars

StrictlyAscending(parts) ==
  \A i, j \in 1..Len(parts) : i < j => parts[i].partNumber < parts[j].partNumber

\* C32: the parts list a complete request hands to the object store's
\* completion call (here: one the store accepts) has pairwise distinct part
\* numbers in ascending order.
C32_CompletionPartsSortedDistinct ==
  [][\A p \in Procs :
       (pc[p] = "comp_r2" /\ pc'[p] = "comp_done")
         => StrictlyAscending(req'[p].parts)]_vars

\* C33: a failed chunk request is retried after waits that double from one
\* second, at most maxRetries times per chunk; the client aborts the session
\* from the chunk loop only when those retries are used up, and after that
\* abort it sends no further chunk and no complete request.
C33_RetryThenAbort ==
  [][/\ client'.retryCount <= maxRetries + 1
     /\ Len(client'.waited) = Min(client'.retryCount, maxRetries)
     /\ \A i \in 1..Len(client'.waited) :
          client'.waited[i] = IF i = 1 THEN 1000 ELSE 2 * client'.waited[i - 1]
     /\ (client.pc = "chunks" /\ client'.aborted) => client.retryCount = maxRetries
     /\ (client.aborted /\ client.chunkIndex < client.totalChunks)
          => client' = NoClient]_vars

\* The retries of a chunk are used up and the client has aborted.
C33_Witness ==
  /\ client.pc = "done"
  /\ client.aborted
  /\ client.retryCount = maxRetries + 1
  /\ Len(client.waited) = maxRetries
  /\ client.chunkIndex = 1

\* C34: when MultipartUploader.upload returns failure after initiate had
\* succeeded, it has sent an abort request for the upload.
C34_FailureAfterInitiateAborts ==
  (client.pc = "done" /\ ~client.success /\ client.totalChunks > 0)
    => client.aborted

\* C35: the uploader never waits for a response without a timeout: it is
\* never left awaiting a request that has no timer to end it.  (A client in
\* that position has no further step, so upload never returns.)
C35_NoAwaitWithoutTimeout == client.pc # "hung"

RECURSIVE SumOver(_, _)
SumOver(f, S) ==
  IF S = {} THEN 0
  ELSE LET x == CHOOSE y \in S : TRUE IN f[x] + SumOver(f, S \ {x})

\* The files of the sweep whose object deletion returned without throwing.
ConfirmedDeleted == sweep.attempted \ sweep.failed

\* C36: storageSpaceFreed is the sum of file_size over exactly the files whose
\* object deletion was confirmed in the sweep, and filesDeleted is their
\* number: a file whose object deletion failed adds to neither.
C36_FreedCountsConfirmedDeletions ==
  /\ sweep.storageSpaceFreed = SumOver(sweep.sizes, ConfirmedDeleted)
  /\ sweep.filesDeleted = Cardinality(ConfirmedDeleted)

\* A finished sweep with a confirmed deletion and a failed one, of files of
\* different sizes.
C36_Witness ==
  /\ sweep.pc = "done"
  /\ \E a \in ConfirmedDeleted, b \in sweep.failed : sweep.sizes[a] # sweep.sizes[b]

\* C37: within a sweep the rate-limit cleanup and the file cleanup are
\* independent: every sweep that ends has run the rate-limit cleanup, whatever
\* happened in the file cleanup, and the rate-limit cleanup, failed or not, is
\* followed by the rest of the sweep and its result.
C37_RateLimitCleanupIndependent ==
  [][/\ sweep'.pc = "done" => sweep'.ranRateLimit
     /\ (sweep.pc = "ratelimit" /\ sweep' # sweep)
          => (sweep'.pc = "done" /\ ~sweep'.fatal)]_vars

\* C38: any two VACUUM executions are separated by more than vacuumInterval,
\* across every sequence of sweeps, overlapping ones included.
C38_VacuumOncePerInterval ==
  \A i, j \in 1..Len(maint.vacuums) :
    i < j => maint.vacuums[j] - maint.vacuums[i] > vacuumInterval

\* The requests of the client that the middleware let through in the window
\* of UPLOAD_WINDOW seconds that ends at t.
PassedInWindow(t) ==
  {r \in Requests : /\ rl.pc[r] = "passed"
                    /\ rl.passedAt[r] > t - UPLOAD_WINDOW
                    /\ rl.passedAt[r] <= t}

\* C39: in any window of 3600 seconds the middleware lets at most the upload
\* limit of requests of one client IP through to the handler.
C39_AtMostLimitPerWindow ==
  \A t \in Times : Cardinality(PassedInWindow(t)) <= UPLOAD_REQUESTS

====
